---- MODULE Spec2Model ----
(***************************************************************************)
(* Model of lib/SILPasses/Utils/SimplifyInstruction.cpp: the peephole      *)
(* simplifier swift::simplifyInstruction and the InstSimplifier visitor.   *)
(*                                                                         *)
(* The state is a SIL graph (the values with their kinds, types, operands  *)
(* and kind-specific fields, and the blocks with their terminators), the   *)
(* outcome an out-of-contract read has in the build at hand, and the       *)
(* record of the last call of simplifyInstruction.  The only operation is  *)
(* simplifyInstruction(I); calls by several callers are a sequence of such *)
(* steps, because a call keeps no state of its own between its reads.      *)
(***************************************************************************)
EXTENDS Integers, Sequences, FiniteSets, TLC

\* ---------------------------------------------------------------- bounds
NumTypes == 2
NumTags == 2
MaxOps == 2
MaxLit == 2
MaxArgs == 3

Types == 1..NumTypes
Tags == 1..NumTags

\* ---------------------------------------------------------------- state
VARIABLES insts, blocks, ub, ret, reinvoked, aborted

vars == <<insts, blocks, ub, ret, reinvoked, aborted>>

\* The null SILValue: "no simplification".
SILValueNull == 0
\* A failed assert / llvm_unreachable (the process aborts).
Fault == -1

Ids == 1..Len(insts)

\* Values that are not instructions (SILArgument): simplifyInstruction
\* takes a SILInstruction.
IsInstruction(v) == insts[v].kind # "argument"

\* dyn_cast<Kind>(V)
IsA(v, k) == v \in Ids /\ insts[v].kind = k

\* SILValue::getType()
TypeOf(v) == insts[v].type

\* getOperand() of a one-operand instruction
Operand(i) == insts[i].ops[1]

\* EnumInst::hasOperand()
hasOperand(i) == Len(insts[i].ops) > 0

\* ------------------------------------------------------- pattern matching
m_Zero(v) == IsA(v, "integer_literal") /\ insts[v].value = 0
m_One(v) == IsA(v, "integer_literal") /\ insts[v].value = 1

\* ------------------------------------------------------------ intrinsics
AddIntrinsics == {"sadd_with_overflow", "uadd_with_overflow"}
SubIntrinsics == {"ssub_with_overflow", "usub_with_overflow"}
MulIntrinsics == {"smul_with_overflow", "umul_with_overflow"}
OverflowIntrinsics == AddIntrinsics \cup SubIntrinsics \cup MulIntrinsics
OverflowBuiltins == {"SAddOver", "UAddOver", "SSubOver", "USubOver", "SMulOver", "UMulOver"}

getLLVMIntrinsicIDForBuiltinWithOverflow(b) ==
  CASE b = "SAddOver" -> "sadd_with_overflow"
    [] b = "UAddOver" -> "uadd_with_overflow"
    [] b = "SSubOver" -> "ssub_with_overflow"
    [] b = "USubOver" -> "usub_with_overflow"
    [] b = "SMulOver" -> "smul_with_overflow"
    [] b = "UMulOver" -> "umul_with_overflow"
    [] OTHER -> "not_intrinsic"

\* ------------------------------------------------------------ control flow
\* The blocks a terminator branches to.
Successors(b) ==
  LET t == blocks[b].term IN
  CASE t.kind = "switch_enum" -> {t.cases[e] : e \in DOMAIN t.cases} \ {0}
    [] t.kind = "br" -> {t.dest}
    [] OTHER -> {}

Predecessors(b) == {p \in 1..Len(blocks) : b \in Successors(p)}

\* SILBasicBlock::getSinglePredecessor(): the predecessor if there is exactly
\* one, else null (0).
getSinglePredecessor(b) ==
  IF Cardinality(Predecessors(b)) = 1
  THEN CHOOSE p \in Predecessors(b) : TRUE
  ELSE 0

\* SwitchEnumInst::getCaseDestination(element): the block registered for
\* the element, 0 if none is.
getCaseDestination(t, e) == IF e \in DOMAIN t.cases THEN t.cases[e] ELSE 0

\* ------------------------------------------------------------ the visitor
\* The default: an instruction without a rule is not simplified.
visitSILInstruction(I) == SILValueNull

\* visitStructInst and visitTupleInst are the same code over struct_extract
\* and tuple_extract.
simplifyAggregateNoOrder(I, extract) ==
  LET ops == insts[I].ops IN
  IF Len(ops) < 1 THEN SILValueNull
  ELSE IF IsA(ops[1], extract)
  THEN LET S == Operand(ops[1]) IN
       IF insts[I].type # TypeOf(S) THEN SILValueNull
       ELSE IF \A k \in 1..Len(ops) :
                 /\ IsA(ops[k], extract)
                 /\ Operand(ops[k]) = S
            THEN S
            ELSE SILValueNull
  ELSE SILValueNull

simplifyAggregate(I, extract) ==
  LET ops == insts[I].ops IN
  IF Len(ops) < 1 THEN SILValueNull
  ELSE IF IsA(ops[1], extract)
  THEN LET S == Operand(ops[1]) IN
       IF insts[I].type # TypeOf(S) THEN SILValueNull
       ELSE IF \A k \in 1..Len(ops) :
                 /\ IsA(ops[k], extract)
                 /\ Operand(ops[k]) = S
                 /\ insts[ops[k]].fieldNo = k - 1
            THEN S
            ELSE SILValueNull
  ELSE SILValueNull

visitStructInst(SI) == simplifyAggregate(SI, "struct_extract")

visitTupleInst(TI) == simplifyAggregate(TI, "tuple_extract")

\* Simplify arithmetic intrinsics with overflow and the identity constants.
\* Fewer than two arguments fail the assert; with asserts compiled out the
\* reads of Args[0], Args[1] are out of bounds (ub).
simplifyBinaryWithOverflowSubSwapped(AI, ID) ==
  LET Args == insts[AI].ops IN
  IF Len(Args) < 2 THEN ub
  ELSE LET Op1 == Args[1]
           Op2 == Args[2]
       IN
       IF ~IsA(Op1, "integer_literal") /\ ~IsA(Op2, "integer_literal")
       THEN SILValueNull
       ELSE CASE ID \in AddIntrinsics ->
                   IF m_Zero(Op1) THEN Op2
                   ELSE IF m_Zero(Op2) THEN Op1
                   ELSE SILValueNull
              [] ID \in SubIntrinsics ->
                   IF m_Zero(Op1) THEN Op2
                   ELSE IF m_Zero(Op2) THEN Op1
                   ELSE SILValueNull
              [] ID \in MulIntrinsics ->
                   IF m_Zero(Op1) THEN Op1
                   ELSE IF m_Zero(Op2) THEN Op2
                   ELSE IF m_One(Op1) THEN Op2
                   ELSE IF m_One(Op2) THEN Op1
                   ELSE SILValueNull
              [] OTHER -> ub

simplifyBinaryWithOverflow(AI, ID) ==
  LET Args == insts[AI].ops IN
  IF Len(Args) < 2 THEN ub
  ELSE LET Op1 == Args[1]
           Op2 == Args[2]
       IN
       IF ~IsA(Op1, "integer_literal") /\ ~IsA(Op2, "integer_literal")
       THEN SILValueNull
       ELSE CASE ID \in AddIntrinsics ->
                   IF m_Zero(Op1) THEN Op2
                   ELSE IF m_Zero(Op2) THEN Op1
                   ELSE SILValueNull
              [] ID \in SubIntrinsics ->
                   IF m_Zero(Op2) THEN Op1
                   ELSE SILValueNull
              [] ID \in MulIntrinsics ->
                   IF m_Zero(Op1) THEN Op1
                   ELSE IF m_Zero(Op2) THEN Op2
                   ELSE IF m_One(Op1) THEN Op2
                   ELSE IF m_One(Op2) THEN Op1
                   ELSE SILValueNull
              [] OTHER -> ub

simplifyOverflowBuiltin(AI, FR) ==
  LET Intrinsic == insts[FR].intrinsic
      Builtin == insts[FR].builtin
  IN
  IF Intrinsic \in OverflowIntrinsics
  THEN simplifyBinaryWithOverflow(AI, Intrinsic)
  ELSE IF Intrinsic # "not_intrinsic" THEN SILValueNull
  ELSE IF Builtin \in OverflowBuiltins
  THEN simplifyBinaryWithOverflow(AI, getLLVMIntrinsicIDForBuiltinWithOverflow(Builtin))
  ELSE SILValueNull

\* A tuple_extract rule that takes the last element for one past the end.
visitTupleExtractInstOffByOne(TEI) ==
  LET op == Operand(TEI)
      no == insts[TEI].fieldNo
  IN
  IF IsA(op, "tuple")
  THEN IF no + 1 < Len(insts[op].ops) THEN insts[op].ops[no + 1] ELSE ub
  ELSE IF no = 0 /\ IsA(op, "apply") /\ IsA(insts[op].callee, "builtin_function_ref")
  THEN simplifyOverflowBuiltin(op, insts[op].callee)
  ELSE SILValueNull

\* tuple_extract(tuple(x, y), 0) -> x; a field number past the elements is
\* an out-of-bounds read of getElements() (ub).
\* tuple_extract(apply([add|sub|...]overflow(x, 0)), 0) -> x
visitTupleExtractInst(TEI) ==
  LET op == Operand(TEI)
      no == insts[TEI].fieldNo
  IN
  IF IsA(op, "tuple")
  THEN IF no < Len(insts[op].ops) THEN insts[op].ops[no + 1] ELSE ub
  ELSE IF no = 0 /\ IsA(op, "apply") /\ IsA(insts[op].callee, "builtin_function_ref")
  THEN simplifyOverflowBuiltin(op, insts[op].callee)
  ELSE SILValueNull

\* struct_extract(struct(x, y), x) -> x
visitStructExtractInst(SEI) ==
  LET op == Operand(SEI)
      no == insts[SEI].fieldNo
  IN
  IF IsA(op, "struct")
  THEN IF no < Len(insts[op].ops) THEN insts[op].ops[no + 1] ELSE ub
  ELSE SILValueNull

\* (unchecked_enum_data (enum payload)) -> payload.  An enum without payload
\* fails the assert; with asserts compiled out getOperand() reads an absent
\* operand (ub).
visitUncheckedEnumDataInstNoTag(UEDI) ==
  LET EI == Operand(UEDI) IN
  IF IsA(EI, "enum")
  THEN IF hasOperand(EI) THEN Operand(EI) ELSE ub
  ELSE SILValueNull

visitUncheckedEnumDataInst(UEDI) ==
  LET EI == Operand(UEDI) IN
  IF IsA(EI, "enum")
  THEN IF insts[EI].elt # insts[UEDI].elt THEN SILValueNull
       ELSE IF hasOperand(EI) THEN Operand(EI) ELSE ub
  ELSE SILValueNull

\* enum in the block a switch_enum branches to for the same element -> the
\* operand of the switch_enum.
visitEnumInstAnyPayload(EI) ==
  LET BB == insts[EI].parent
      Pred == getSinglePredecessor(BB)
  IN
  IF Pred = 0 THEN SILValueNull
  ELSE LET SEI == blocks[Pred].term IN
       IF SEI.kind = "switch_enum"
       THEN IF insts[EI].type # TypeOf(SEI.operand) THEN SILValueNull
            ELSE IF BB = getCaseDestination(SEI, insts[EI].elt) THEN SEI.operand
            ELSE SILValueNull
       ELSE SILValueNull

visitEnumInst(EI) ==
  IF hasOperand(EI) THEN SILValueNull
  ELSE LET BB == insts[EI].parent
           Pred == getSinglePredecessor(BB)
       IN
       IF Pred = 0 THEN SILValueNull
       ELSE LET SEI == blocks[Pred].term IN
            IF SEI.kind = "switch_enum"
            THEN IF insts[EI].type # TypeOf(SEI.operand) THEN SILValueNull
                 ELSE IF BB = getCaseDestination(SEI, insts[EI].elt) THEN SEI.operand
                 ELSE SILValueNull
            ELSE SILValueNull

\* (address_to_pointer (pointer_to_address x)) -> x.  The guard compares the
\* type of the pointer_to_address with the type of the operand of the
\* address_to_pointer, which is that same value.
visitAddressToPointerInst(ATPI) ==
  LET PTAI == Operand(ATPI) IN
  IF IsA(PTAI, "pointer_to_address") /\ insts[PTAI].type = TypeOf(Operand(ATPI))
  THEN Operand(PTAI)
  ELSE SILValueNull

\* (pointer_to_address (address_to_pointer x)) -> x
visitPointerToAddressInst(PTAI) ==
  LET ATPI == Operand(PTAI) IN
  IF IsA(ATPI, "address_to_pointer") /\ TypeOf(Operand(ATPI)) = insts[PTAI].type
  THEN Operand(ATPI)
  ELSE SILValueNull

\* (ref_to_raw_pointer (raw_pointer_to_ref x)) -> x, no type check
visitRefToRawPointerInst(RefToRaw) ==
  LET RawToRef == Operand(RefToRaw) IN
  IF IsA(RawToRef, "raw_pointer_to_ref") THEN Operand(RawToRef) ELSE SILValueNull

\* (UCCI downcast (upcast x #type1 to #type2) #type2 to #type1) -> x
visitUnconditionalCheckedCastInst(UCCI) ==
  LET Upcast == Operand(UCCI) IN
  IF /\ insts[UCCI].castKind = "Downcast"
     /\ IsA(Upcast, "upcast")
     /\ TypeOf(Operand(UCCI)) = insts[Upcast].type
     /\ insts[UCCI].type = TypeOf(Operand(Upcast))
  THEN Operand(Upcast)
  ELSE SILValueNull

visitUncheckedRefCastInstNoGuard(OPRI) ==
  LET op == Operand(OPRI) IN
  IF IsA(op, "unchecked_ref_cast")
  THEN Operand(op)
  ELSE IF IsA(op, "upcast") /\ TypeOf(Operand(op)) = insts[OPRI].type
  THEN Operand(op)
  ELSE IF TypeOf(op) = insts[OPRI].type
  THEN op
  ELSE SILValueNull

visitUncheckedRefCastInst(OPRI) ==
  LET op == Operand(OPRI) IN
  IF IsA(op, "unchecked_ref_cast") /\ TypeOf(Operand(op)) = insts[OPRI].type
  THEN Operand(op)
  ELSE IF IsA(op, "upcast") /\ TypeOf(Operand(op)) = insts[OPRI].type
  THEN Operand(op)
  ELSE IF TypeOf(op) = insts[OPRI].type
  THEN op
  ELSE SILValueNull

visitUncheckedAddrCastInst(UACI) ==
  LET op == Operand(UACI) IN
  IF IsA(op, "unchecked_addr_cast") /\ TypeOf(Operand(op)) = insts[UACI].type
  THEN Operand(op)
  ELSE IF TypeOf(op) = insts[UACI].type
  THEN op
  ELSE SILValueNull

\* (upcast Y->X (unchecked-ref-cast x X->Y)) -> x
visitUpcastInst(UI) ==
  LET URCI == Operand(UI) IN
  IF IsA(URCI, "unchecked_ref_cast") /\ TypeOf(Operand(URCI)) = insts[UI].type
  THEN Operand(URCI)
  ELSE SILValueNull

\* apply(expect, constant, _) -> constant.  getArgument(0) of an apply
\* without arguments is an out-of-bounds read (ub).
visitApplyInstFoldingOverflow(AI) ==
  LET BFRI == insts[AI].callee IN
  IF ~IsA(BFRI, "builtin_function_ref") THEN SILValueNull
  ELSE IF insts[BFRI].intrinsic = "expect"
  THEN IF Len(insts[AI].ops) = 0 THEN ub
       ELSE IF IsA(insts[AI].ops[1], "integer_literal") THEN insts[AI].ops[1]
       ELSE SILValueNull
  ELSE simplifyOverflowBuiltin(AI, BFRI)

visitApplyInst(AI) ==
  LET BFRI == insts[AI].callee IN
  IF ~IsA(BFRI, "builtin_function_ref") THEN SILValueNull
  ELSE IF insts[BFRI].intrinsic = "expect"
  THEN IF Len(insts[AI].ops) = 0 THEN ub
       ELSE IF IsA(insts[AI].ops[1], "integer_literal") THEN insts[AI].ops[1]
       ELSE SILValueNull
  ELSE SILValueNull

\* SILInstructionVisitor::visit: dispatch on the kind of the instruction.
visit(I) ==
  LET k == insts[I].kind IN
  CASE k = "struct" -> visitStructInst(I)
    [] k = "tuple" -> visitTupleInst(I)
    [] k = "tuple_extract" -> visitTupleExtractInst(I)
    [] k = "struct_extract" -> visitStructExtractInst(I)
    [] k = "enum" -> visitEnumInst(I)
    [] k = "unchecked_enum_data" -> visitUncheckedEnumDataInst(I)
    [] k = "address_to_pointer" -> visitAddressToPointerInst(I)
    [] k = "pointer_to_address" -> visitPointerToAddressInst(I)
    [] k = "ref_to_raw_pointer" -> visitRefToRawPointerInst(I)
    [] k = "unconditional_checked_cast" -> visitUnconditionalCheckedCastInst(I)
    [] k = "unchecked_ref_cast" -> visitUncheckedRefCastInst(I)
    [] k = "unchecked_addr_cast" -> visitUncheckedAddrCastInst(I)
    [] k = "upcast" -> visitUpcastInst(I)
    [] k = "apply" -> visitApplyInst(I)
    [] OTHER -> visitSILInstruction(I)

\* --------------------------------------------------- the graphs explored
\* A value of the graph.  ops are the operands (the arguments of an apply,
\* whose callee is kept apart); a field that a kind does not have keeps
\* the value given here.
Node(k, t, o) ==
  [kind |-> k, type |-> t, ops |-> o, callee |-> 0, fieldNo |-> 0, elt |-> 0,
   value |-> 0, intrinsic |-> "not_intrinsic", builtin |-> "None",
   castKind |-> "None", parent |-> 1]

Argument(t) == Node("argument", t, <<>>)
IntegerLiteral(t, v) == [Node("integer_literal", t, <<>>) EXCEPT !.value = v]
Extract(k, t, op, no) == [Node(k, t, <<op>>) EXCEPT !.fieldNo = no]
Enum(t, e, o, bb) == [Node("enum", t, o) EXCEPT !.elt = e, !.parent = bb]
UncheckedEnumData(t, e, op) == [Node("unchecked_enum_data", t, <<op>>) EXCEPT !.elt = e]
Cast(k, ck, t, op) == [Node(k, t, <<op>>) EXCEPT !.castKind = ck]
Apply(t, c, args) == [Node("apply", t, args) EXCEPT !.callee = c]
BuiltinFunctionRef(i, b) ==
  [Node("builtin_function_ref", 1, <<>>) EXCEPT !.intrinsic = i, !.builtin = b]

NoCases == [e \in Tags |-> 0]
Term(k, op, cs, d) == [term |-> [kind |-> k, operand |-> op, cases |-> cs, dest |-> d]]
Return == Term("return", 0, NoCases, 0)
OneBlock == <<Return>>

Graph(is, bs) == [insts |-> is, blocks |-> bs]

\* The sequences over S of length 0..n.
SeqsUpTo(S, n) == UNION {[1..m -> S] : m \in 0..n}

\* Casts over casts: x, an inner cast of x, an outer cast of x or of the
\* inner cast.
CastVariants ==
  {<<k, "None">> : k \in {"address_to_pointer", "pointer_to_address",
                          "ref_to_raw_pointer", "raw_pointer_to_ref",
                          "unchecked_ref_cast", "unchecked_addr_cast", "upcast"}}
  \cup {<<"unconditional_checked_cast", ck>> : ck \in {"Downcast", "Unknown"}}

CastGraphs ==
  {Graph(<<Argument(tx), Cast(ki[1], ki[2], ti, 1), Cast(ko[1], ko[2], to, op)>>, OneBlock) :
     tx \in Types, ti \in Types, to \in Types,
     ki \in CastVariants, ko \in CastVariants, op \in {1, 2}}

\* Aggregates of extracts: two sources S1, S2 of one type, one value per
\* operand of the aggregate (an extract of a source at some field, or a
\* value that is no extract; the rule does not read their types), and the
\* struct or tuple.
OperandChoices == ({1, 2} \X (0..MaxOps)) \cup {<<0, 0>>}

AggregateOperand(c, ek) ==
  IF c[1] = 0 THEN Argument(1) ELSE Extract(ek, 1, c[1], c[2])

AggregateGraphs ==
  {Graph(<<Argument(1), Argument(1)>>
           \o [k \in 1..Len(cs) |-> AggregateOperand(cs[k], ek)]
           \o <<Node(ck, ct, [k \in 1..Len(cs) |-> k + 2])>>, OneBlock) :
     cs \in SeqsUpTo(OperandChoices, MaxOps),
     ek \in {"struct_extract", "tuple_extract"},
     ck \in {"struct", "tuple"}, ct \in Types}

\* Extracts of aggregates: two values, a struct or tuple of them, and an
\* extract of the aggregate or of a plain value; the field number may lie
\* past the elements.
ExtractGraphs ==
  {Graph(<<Argument(ta), Argument(1), Node(ck, 1, os), Extract(ek, et, op, no)>>, OneBlock) :
     ta \in Types, ck \in {"struct", "tuple"},
     os \in SeqsUpTo({1, 2}, MaxOps),
     ek \in {"struct_extract", "tuple_extract"}, et \in Types,
     op \in {1, 3}, no \in 0..MaxOps}

\* Calls: the callee, the arguments (none, one, two, or MaxArgs of them; a
\* plain value or a literal 0..MaxLit each, arguments past the second
\* plain values), the apply and a tuple_extract of it.
Callees ==
  {BuiltinFunctionRef(i, "None") : i \in OverflowIntrinsics \cup {"expect", "ctlz"}}
  \cup {BuiltinFunctionRef("not_intrinsic", b) : b \in OverflowBuiltins \cup {"ICMP_EQ"}}
  \cup {Node("function_ref", 1, <<>>)}

ArgumentChoices == {-1} \cup (0..MaxLit)

ArgumentLists ==
  SeqsUpTo(ArgumentChoices, 2)
  \cup {a \o [k \in 1..(MaxArgs - 2) |-> -1] : a \in [1..2 -> ArgumentChoices]}

ArgumentNode(c, t) == IF c = -1 THEN Argument(t) ELSE IntegerLiteral(t, c)

ApplyGraphs ==
  {Graph(<<callee>>
           \o [k \in 1..Len(as) |-> ArgumentNode(as[k], ta)]
           \o <<Apply(1, 1, [k \in 1..Len(as) |-> k + 1]),
                Extract("tuple_extract", te, Len(as) + 2, no)>>, OneBlock) :
     callee \in Callees, as \in ArgumentLists,
     ta \in Types, te \in Types, no \in {0, 1}}

\* Payload extracts: a payload, an enum (with or without it) or a plain
\* value, and the unchecked_enum_data.
EnumDataGraphs ==
  {Graph(<<Argument(tp), e, UncheckedEnumData(tu, eu, 2)>>, OneBlock) :
     tp \in Types, tu \in Types, eu \in Tags,
     e \in {Enum(t, el, o, 1) : t \in Types, el \in Tags, o \in {<<>>, <<1>>}}
           \cup {Argument(1)}}

\* Enums after a switch: two scrutinees of one type, the enum in block 3,
\* and the blocks 1 and 2 that may branch to block 3 or to block 4.
FirstTerminators ==
  {Term("switch_enum", s, cs, 0) : s \in {1, 2}, cs \in [Tags -> {0, 3, 4}]}
  \cup {Term("br", 0, NoCases, 3), Term("br", 0, NoCases, 4), Return}

SecondTerminators ==
  {Term("switch_enum", 1, [e \in Tags |-> IF e = el THEN 3 ELSE 0], 0) : el \in Tags}
  \cup {Term("br", 0, NoCases, 3), Return}

EnumGraphs ==
  {Graph(<<Argument(1), Argument(1), Enum(t, el, o, 3)>>, <<t1, t2, Return, Return>>) :
     t \in Types, el \in Tags, o \in {<<>>, <<1>>},
     t1 \in FirstTerminators, t2 \in SecondTerminators}

Graphs ==
  CastGraphs \cup AggregateGraphs \cup ExtractGraphs \cup ApplyGraphs
  \cup EnumDataGraphs \cup EnumGraphs

\* ------------------------------------------------------- out-of-contract
\* The instructions on which a rule reads outside what the instruction
\* has: the places of the asserts and of the unchecked indexing.
IsOverflowCallee(c) ==
  /\ IsA(c, "builtin_function_ref")
  /\ \/ insts[c].intrinsic \in OverflowIntrinsics
     \/ insts[c].intrinsic = "not_intrinsic" /\ insts[c].builtin \in OverflowBuiltins

ReadsOutOfContract(I) ==
  LET k == insts[I].kind IN
  \/ /\ k = "tuple_extract"
     /\ IsA(Operand(I), "tuple")
     /\ insts[I].fieldNo >= Len(insts[Operand(I)].ops)
  \/ /\ k = "struct_extract"
     /\ IsA(Operand(I), "struct")
     /\ insts[I].fieldNo >= Len(insts[Operand(I)].ops)
  \/ /\ k = "unchecked_enum_data"
     /\ IsA(Operand(I), "enum")
     /\ insts[Operand(I)].elt = insts[I].elt
     /\ ~hasOperand(Operand(I))
  \/ /\ k = "tuple_extract"
     /\ insts[I].fieldNo = 0
     /\ IsA(Operand(I), "apply")
     /\ IsOverflowCallee(insts[Operand(I)].callee)
     /\ Len(insts[Operand(I)].ops) < 2
  \/ /\ k = "apply"
     /\ IsA(insts[I].callee, "builtin_function_ref")
     /\ insts[insts[I].callee].intrinsic = "expect"
     /\ Len(insts[I].ops) = 0

\* What such a read can give: the failed assert, or, with asserts compiled
\* out, whatever lies there (null, or some value).
Outcomes == {Fault, SILValueNull} \cup Ids

\* ----------------------------------------------------------- operations
Init ==
  /\ \E g \in Graphs : insts = g.insts /\ blocks = g.blocks
  /\ ub \in (IF \E I \in Ids : ReadsOutOfContract(I) THEN Outcomes ELSE {Fault})
  /\ ret = [inst |-> 0, val |-> SILValueNull]
  /\ reinvoked = FALSE
  /\ aborted = FALSE

\* A simplifier that applies its own answer: the uses of I become uses of
\* the value found.
simplifyInstructionRewriting(I) ==
  /\ ~aborted
  /\ I \in Ids
  /\ IsInstruction(I)
  /\ ret' = [inst |-> I, val |-> visit(I)]
  /\ reinvoked' = (ret.inst = I)
  /\ aborted' = (visit(I) = Fault)
  /\ insts' = IF visit(I) \in Ids
              THEN [j \in Ids |->
                      [insts[j] EXCEPT !.ops =
                         [k \in 1..Len(insts[j].ops) |->
                            IF insts[j].ops[k] = I THEN visit(I) ELSE insts[j].ops[k]]]]
              ELSE insts
  /\ UNCHANGED <<blocks, ub>>

\* swift::simplifyInstruction(I): the answer of the visitor; the graph is
\* only read.  A failed assert ends the process.
simplifyInstruction(I) ==
  /\ ~aborted
  /\ I \in Ids
  /\ IsInstruction(I)
  /\ ret' = [inst |-> I, val |-> visit(I)]
  /\ reinvoked' = (ret.inst = I)
  /\ aborted' = (visit(I) = Fault)
  /\ UNCHANGED <<insts, blocks, ub>>

Next == \E I \in Ids : simplifyInstruction(I)

Spec == Init /\ [][Next]_vars

\* ------------------------------------------------------ well-typed graphs
\* The typing the rules without a type check rest on: the type of an
\* extract is the type of the field it reads, the type of a payload extract
\* is the type of the payload, a raw pointer has one type, the result of an
\* overflow primitive and of the hint has the type of its arguments, and no
\* instruction reads out of contract.  The type a cast declares is free.
WellTyped ==
  \A I \in Ids :
    LET k == insts[I].kind IN
    /\ ~ReadsOutOfContract(I)
    /\ (k = "tuple_extract" /\ IsA(Operand(I), "tuple"))
         => insts[I].type = TypeOf(insts[Operand(I)].ops[insts[I].fieldNo + 1])
    /\ (k = "struct_extract" /\ IsA(Operand(I), "struct"))
         => insts[I].type = TypeOf(insts[Operand(I)].ops[insts[I].fieldNo + 1])
    /\ (k = "unchecked_enum_data" /\ IsA(Operand(I), "enum") /\ hasOperand(Operand(I)))
         => insts[I].type = TypeOf(Operand(Operand(I)))
    /\ (k = "ref_to_raw_pointer" /\ IsA(Operand(I), "raw_pointer_to_ref"))
         => insts[I].type = TypeOf(Operand(Operand(I)))
    /\ (k = "tuple_extract" /\ insts[I].fieldNo = 0 /\ IsA(Operand(I), "apply")
          /\ IsOverflowCallee(insts[Operand(I)].callee))
         => \A a \in 1..2 : insts[I].type = TypeOf(insts[Operand(I)].ops[a])
    /\ (k = "apply" /\ IsA(insts[I].callee, "builtin_function_ref")
          /\ insts[insts[I].callee].intrinsic = "expect")
         => insts[I].type = TypeOf(insts[I].ops[1])

InitWellTyped == Init /\ WellTyped

SpecWellTyped == InitWellTyped /\ [][Next]_vars

\* ================================================================ claims
\* The instruction of the last call and its answer.
Called(k) == ret.inst # 0 /\ insts[ret.inst].kind = k

\* C1: for an address_to_pointer O over a pointer_to_address of x : T,
\* simplify(O) is x only when the type of O is T, and is no simplification
\* whenever the type of O differs from T.
C1_GuardedCancel ==
  (Called("address_to_pointer") /\ IsA(Operand(ret.inst), "pointer_to_address"))
    => LET O == ret.inst
           x == Operand(Operand(O))
       IN /\ ret.val = x => insts[O].type = TypeOf(x)
          /\ insts[O].type # TypeOf(x) => ret.val = SILValueNull

\* The identity folds of add / sub / mul with overflow over the arguments
\* a1, a2, as the specification words them: the answers it allows.
PrimitiveClass(c) ==
  LET id == IF insts[c].intrinsic # "not_intrinsic" THEN insts[c].intrinsic
            ELSE insts[c].builtin
  IN CASE id \in {"sadd_with_overflow", "uadd_with_overflow", "SAddOver", "UAddOver"} -> "add"
       [] id \in {"ssub_with_overflow", "usub_with_overflow", "SSubOver", "USubOver"} -> "sub"
       [] id \in {"smul_with_overflow", "umul_with_overflow", "SMulOver", "UMulOver"} -> "mul"
       [] OTHER -> "none"

LiteralIs(v, n) == v \in Ids /\ insts[v].kind = "integer_literal" /\ insts[v].value = n

IdentityFolds(cls, a1, a2) ==
  CASE cls = "add" -> {a2 : z \in {a1} \cap {v \in Ids : LiteralIs(v, 0)}}
                      \cup {a1 : z \in {a2} \cap {v \in Ids : LiteralIs(v, 0)}}
    [] cls = "sub" -> {a1 : z \in {a2} \cap {v \in Ids : LiteralIs(v, 0)}}
    [] cls = "mul" -> {z \in {a1, a2} : LiteralIs(z, 0)}
                      \cup {a2 : z \in {a1} \cap {v \in Ids : LiteralIs(v, 1)}}
                      \cup {a1 : z \in {a2} \cap {v \in Ids : LiteralIs(v, 1)}}
    [] OTHER -> {}

IsIdentityFold(val, cls, a1, a2) ==
  IF IdentityFolds(cls, a1, a2) = {} THEN val = SILValueNull
  ELSE val \in IdentityFolds(cls, a1, a2)

\* C2 as stated: simplify of a call of an add / sub / mul with overflow
\* primitive with two arguments is the identity fold of the arguments.
C2_CallFoldsIdentities ==
  (Called("apply") /\ IsOverflowCallee(insts[ret.inst].callee) /\ Len(insts[ret.inst].ops) = 2)
    => IsIdentityFold(ret.val, PrimitiveClass(insts[ret.inst].callee),
                      insts[ret.inst].ops[1], insts[ret.inst].ops[2])

\* C2 as amended: simplify of a call of an add / sub / mul with overflow
\* primitive is no simplification, whatever the arguments are.
C2_CallNotFolded ==
  (Called("apply") /\ IsOverflowCallee(insts[ret.inst].callee))
    => ret.val = SILValueNull

C2_Witness ==
  /\ Called("apply")
  /\ PrimitiveClass(insts[ret.inst].callee) = "add"
  /\ Len(insts[ret.inst].ops) = 2
  /\ LiteralIs(insts[ret.inst].ops[1], 0)
  /\ insts[insts[ret.inst].ops[2]].kind = "argument"
  /\ ret.val = SILValueNull

\* C3: simplify of a struct or tuple C with n operands is S exactly when
\* n >= 1, operand i is the extract (of C's kind) of S at field i for every
\* i, and the type of C is the type of S; otherwise it is no simplification.
ExtractOf(k) == IF k = "struct" THEN "struct_extract" ELSE "tuple_extract"

RebuiltSources(C) ==
  {S \in Ids :
     /\ Len(insts[C].ops) >= 1
     /\ \A i \in 1..Len(insts[C].ops) :
          LET e == insts[C].ops[i] IN
          /\ insts[e].kind = ExtractOf(insts[C].kind)
          /\ insts[e].ops = <<S>>
          /\ insts[e].fieldNo = i - 1
     /\ insts[C].type = insts[S].type}

C3_AggregateOfExtracts ==
  (Called("struct") \/ Called("tuple"))
    => IF RebuiltSources(ret.inst) = {} THEN ret.val = SILValueNull
       ELSE ret.val \in RebuiltSources(ret.inst)

C3_Witness ==
  /\ Called("tuple")
  /\ Len(insts[ret.inst].ops) = 2
  /\ ret.val \in RebuiltSources(ret.inst)

\* C4: simplify of a payload extract with tag t' over an enum with tag t
\* and payload p is p if t = t' and no simplification if t # t'; over a
\* value that is no enum it is no simplification.
C4_PayloadOfEnum ==
  Called("unchecked_enum_data")
    => LET U == ret.inst
           E == insts[U].ops[1]
       IN /\ (insts[E].kind = "enum" /\ Len(insts[E].ops) = 1 /\ insts[E].elt = insts[U].elt)
               => ret.val = insts[E].ops[1]
          /\ (insts[E].kind = "enum" /\ Len(insts[E].ops) = 1 /\ insts[E].elt # insts[U].elt)
               => ret.val = SILValueNull
          /\ insts[E].kind # "enum" => ret.val = SILValueNull

C4_Witness ==
  /\ Called("unchecked_enum_data")
  /\ insts[insts[ret.inst].ops[1]].kind = "enum"
  /\ insts[insts[ret.inst].ops[1]].elt = insts[ret.inst].elt
  /\ ret.val = 1

\* C5: simplify of an enum I in block B is the scrutinee S only when I has
\* no payload, B has exactly one predecessor P, P ends in a switch_enum
\* over S, B is the block registered for I's element, and the type of I is
\* the type of S; with two or more predecessors, or with a payload, it is
\* no simplification.
BranchesTo(p, b) ==
  \/ blocks[p].term.kind = "br" /\ blocks[p].term.dest = b
  \/ blocks[p].term.kind = "switch_enum" /\ \E e \in Tags : blocks[p].term.cases[e] = b

C5_EnumAfterSwitch ==
  Called("enum")
    => LET I == ret.inst
           B == insts[I].parent
           Ps == {p \in 1..Len(blocks) : BranchesTo(p, B)}
       IN /\ ret.val # SILValueNull
               => /\ insts[I].ops = <<>>
                  /\ Cardinality(Ps) = 1
                  /\ \A p \in Ps :
                       /\ blocks[p].term.kind = "switch_enum"
                       /\ blocks[p].term.operand = ret.val
                       /\ blocks[p].term.cases[insts[I].elt] = B
                       /\ insts[I].type = insts[ret.val].type
          /\ (Cardinality(Ps) >= 2 \/ insts[I].ops # <<>>) => ret.val = SILValueNull

C5_Witness ==
  /\ Called("enum")
  /\ ret.val = 2
  /\ Cardinality({p \in 1..Len(blocks) : BranchesTo(p, insts[ret.inst].parent)}) = 1

\* C6 as stated: simplify never fails, on any instruction: its answer is a
\* value of the graph or no simplification, never an assertion or a fault.
C6_NeverFails ==
  /\ ret.val \in {SILValueNull} \cup Ids
  /\ ~aborted

\* C6 as amended: simplify never fails on an instruction that is not
\* malformed (an unregistered kind included); on an extract whose field
\* number is past the elements of the struct or tuple it reads, a payload
\* extract with the matching tag over an enum without payload, a field-0
\* extract of an overflow primitive called with fewer than two arguments,
\* and a hint called without arguments, it does not decline: its answer is
\* what the out-of-contract read gives (a failed assert where asserts are
\* compiled in).
Malformed(I) ==
  \/ /\ insts[I].kind \in {"tuple_extract", "struct_extract"}
     /\ insts[insts[I].ops[1]].kind = (IF insts[I].kind = "tuple_extract" THEN "tuple" ELSE "struct")
     /\ insts[I].fieldNo + 1 > Len(insts[insts[I].ops[1]].ops)
  \/ /\ insts[I].kind = "unchecked_enum_data"
     /\ insts[insts[I].ops[1]].kind = "enum"
     /\ insts[insts[I].ops[1]].elt = insts[I].elt
     /\ insts[insts[I].ops[1]].ops = <<>>
  \/ /\ insts[I].kind = "tuple_extract"
     /\ insts[I].fieldNo = 0
     /\ insts[insts[I].ops[1]].kind = "apply"
     /\ PrimitiveClass(insts[insts[I].ops[1]].callee) # "none"
     /\ Len(insts[insts[I].ops[1]].ops) < 2
  \/ /\ insts[I].kind = "apply"
     /\ insts[insts[I].callee].intrinsic = "expect"
     /\ insts[I].ops = <<>>

C6_WellFormedNeverFails ==
  ret.inst # 0
    => IF Malformed(ret.inst)
       THEN ret.val = ub /\ aborted = (ub = Fault)
       ELSE ret.val \in {SILValueNull} \cup Ids /\ ~aborted

C6_Witness ==
  /\ Called("tuple_extract")
  /\ insts[insts[ret.inst].ops[1]].kind = "tuple"
  /\ insts[ret.inst].fieldNo = 1
  /\ Len(insts[insts[ret.inst].ops[1]].ops) = 2
  /\ ret.val \in Ids
  /\ ~aborted

C8_UncheckedRefCast ==
  Called("unchecked_ref_cast")
    => LET O == ret.inst
           op == insts[O].ops[1]
       IN IF /\ insts[op].kind \in {"unchecked_ref_cast", "upcast"}
             /\ insts[insts[op].ops[1]].type = insts[O].type
          THEN ret.val = insts[op].ops[1]
          ELSE IF insts[op].type = insts[O].type
          THEN ret.val = op
          ELSE ret.val = SILValueNull

C8_Witness ==
  /\ Called("unchecked_ref_cast")
  /\ insts[insts[ret.inst].ops[1]].kind = "upcast"
  /\ insts[insts[ret.inst].ops[1]].type # insts[ret.inst].type
  /\ ret.val = 1

\* C9: whenever simplify(I) is a value V, the type of V is the type of I.
C9_TypePreserved ==
  (ret.inst # 0 /\ ret.val \in Ids) => insts[ret.val].type = insts[ret.inst].type

\* C10: simplify of a tuple_extract of a call of an add / sub / mul with
\* overflow primitive is, for field 0, the identity fold of the call's two
\* arguments (a multiply with a literal zero gives the zero literal, also
\* when the other argument is the literal one), and for any other field no
\* simplification.
C10_ExtractFoldsOverflow ==
  (/\ Called("tuple_extract")
   /\ insts[insts[ret.inst].ops[1]].kind = "apply"
   /\ PrimitiveClass(insts[insts[ret.inst].ops[1]].callee) # "none")
    => LET AI == insts[ret.inst].ops[1]
           cls == PrimitiveClass(insts[AI].callee)
       IN /\ (insts[ret.inst].fieldNo = 0 /\ Len(insts[AI].ops) >= 2)
               => /\ IsIdentityFold(ret.val, cls, insts[AI].ops[1], insts[AI].ops[2])
                  /\ (cls = "mul" /\ \E a \in 1..2 : LiteralIs(insts[AI].ops[a], 0))
                       => LiteralIs(ret.val, 0)
          /\ insts[ret.inst].fieldNo # 0 => ret.val = SILValueNull

C10_Witness ==
  /\ Called("tuple_extract")
  /\ insts[ret.inst].fieldNo = 0
  /\ insts[insts[ret.inst].ops[1]].kind = "apply"
  /\ PrimitiveClass(insts[insts[ret.inst].ops[1]].callee) = "mul"
  /\ Len(insts[insts[ret.inst].ops[1]].ops) >= 2
  /\ LiteralIs(insts[insts[ret.inst].ops[1]].ops[1], 1)
  /\ LiteralIs(insts[insts[ret.inst].ops[1]].ops[2], 0)
  /\ ret.val = insts[insts[ret.inst].ops[1]].ops[2]

====
